---- MODULE Spec2Model ----
(***************************************************************************)
(* Model of the path-suggestion component (PathFinder.tsx) and of the      *)
(* mount helpers (needsMountPlugin / dialogGetMountPlugin / unmount).      *)
(*                                                                         *)
(* JavaScript strings are modelled as sequences of one-character strings,  *)
(* so that split / join / includes / endsWith / toLowerCase are computed   *)
(* the way the code computes them.                                         *)
(***************************************************************************)
EXTENDS Integers, Sequences, FiniteSets, TLC

(***************************************************************************)
(* String primitives                                                       *)
(***************************************************************************)

\* s.slice(from, to) with 1-based inclusive indices; empty when from > to
Slice(s, from, to) ==
    IF from > to THEN <<>> ELSE SubSeq(s, from, to)

\* s.startsWith(p) evaluated at position i of s
MatchAt(s, p, i) ==
    /\ i + Len(p) - 1 <= Len(s)
    /\ \A k \in 1..Len(p) : s[i + k - 1] = p[k]

\* s.includes(needle)
Includes(s, needle) ==
    \E i \in 1..(Len(s) + 1) : MatchAt(s, needle, i)

\* s.endsWith(suffix)
EndsWith(s, suffix) ==
    /\ Len(suffix) <= Len(s)
    /\ MatchAt(s, suffix, Len(s) - Len(suffix) + 1)

UpperChars ==
    <<"A","B","C","D","E","F","G","H","I","J","K","L","M",
      "N","O","P","Q","R","S","T","U","V","W","X","Y","Z">>

LowerChars ==
    <<"a","b","c","d","e","f","g","h","i","j","k","l","m",
      "n","o","p","q","r","s","t","u","v","w","x","y","z">>

\* s.toLowerCase()
ToLowerCase(s) ==
    [i \in 1..Len(s) |->
        IF \E k \in 1..26 : UpperChars[k] = s[i]
        THEN LowerChars[CHOOSE k \in 1..26 : UpperChars[k] = s[i]]
        ELSE s[i]]

RECURSIVE SplitFrom(_, _, _, _)
\* s.split(sep) for a non-empty separator: scans left to right from position
\* i, cur is the piece collected so far; matches do not overlap
SplitFrom(s, sep, i, cur) ==
    IF i > Len(s) THEN <<cur>>
    ELSE IF MatchAt(s, sep, i)
         THEN <<cur>> \o SplitFrom(s, sep, i + Len(sep), <<>>)
         ELSE SplitFrom(s, sep, i + 1, Append(cur, s[i]))

Split(s, sep) == SplitFrom(s, sep, 1, <<>>)

RECURSIVE Join(_, _)
\* parts.join(sep)
Join(parts, sep) ==
    IF Len(parts) = 0 THEN <<>>
    ELSE IF Len(parts) = 1 THEN parts[1]
    ELSE parts[1] \o sep \o Join(Tail(parts), sep)

\* parts.slice(0, -1)
DropLast(parts) ==
    IF Len(parts) = 0 THEN <<>> ELSE SubSeq(parts, 1, Len(parts) - 1)

(***************************************************************************)
(* unmount(mountPoint, force)                                              *)
(***************************************************************************)

\* cap on the number of command executions explored within one call
MaxExecs == 3

BusyNeedle == <<"b","u","s","y">>

NotMountedNeedle ==
    <<"n","o","t"," ","c","u","r","r","e","n","t","l","y"," ","m","o","u","n","t","e","d">>

ForceFlag == <<"-","f">>

MountPoints ==
    { <<"/","m","n","t","/","x">>,
      <<"/","m","n","t","/","b","u","s","y">> }

\* texts the unmount utility may print on stderr
StderrTexts ==
    { <<>>,
      <<"R","e","s","o","u","r","c","e"," ","B","u","s","y">>,
      <<"N","o","t"," ","C","u","r","r","e","n","t","l","y"," ","M","o","u","n","t","e","d">>,
      <<"/","m","n","t","/","b","u","s","y",":"," ","n","o","t"," ","c","u","r","r","e","n","t","l","y"," ","m","o","u","n","t","e","d">>,
      <<"d","e","n","i","e","d">> }

ExitCodes == {0, 1}

NoOutput == [code |-> -1, stderr |-> <<>>]

NoError == <<"no error">>

VARIABLES
    \* ---- PathFinder component state ----
    platform,       \* result of platform()
    fieldPath,      \* sourcePath / destPath props, per field
    suggestions,    \* useState suggestions, per field
    isLoading,      \* useState isLoading, per field
    error,          \* useState error, per field
    tasks,          \* fetchSuggestions calls suspended at an await
    issued,         \* per field: number of fetchSuggestions calls started
    writer,         \* per field: sequence number of the call that last wrote suggestions
    last,           \* per field: what the most recently completed call did
    browse,         \* per field: position of the handleBrowse call
    windowsLocked,  \* effect of lockWindows / unlockWindows
    ops,            \* number of user operations performed
    swap,           \* run of consecutive handleSwap calls and the paths before it
    \* ---- unmount call state ----
    umPc,           \* "idle", "executing", "prompt", "done", "failed"
    umMountPoint,   \* mountPoint argument
    umForce,        \* force argument of the running invocation
    umTopForce,     \* force argument of the top-level invocation
    umOutput,       \* output of the last command.execute()
    umCmds,         \* argument lists of the commands executed in this call
    umPrompts,      \* number of ask() dialogs shown in this call
    umAnswer,       \* "none", "confirmed", "declined": last answer to ask()
    umError,        \* message of the Error thrown, NoError if none
    \* ---- mount plugin helpers ----
    currentPlatform, \* platform() as read by the mount helpers
    pathExists,      \* result of exists(path) for the driver install paths
    np,              \* the needsMountPlugin call
    dg               \* the dialogGetMountPlugin call

pfVars ==
    <<platform, fieldPath, suggestions, isLoading, error, tasks, issued,
      writer, last, browse, windowsLocked, ops, swap>>

umVars ==
    <<umPc, umMountPoint, umForce, umTopForce, umOutput, umCmds, umPrompts,
      umAnswer, umError>>

mpVars == <<currentPlatform, pathExists, np, dg>>

vars == <<pfVars, umVars, mpVars>>

\* the argument list built with the flag whatever force is
CommandArgsAlwaysForced(mountPoint, force) ==
    <<ForceFlag, mountPoint>>

\* Command.create('umount', [force ? '-f' : '', mountPoint])
CommandArgs(mountPoint, force) ==
    <<IF force THEN ForceFlag ELSE <<>>, mountPoint>>

\* the classification of the output made on the stderr text alone
UnmountOutcomeIgnoringCode(output) ==
    IF Includes(ToLowerCase(output.stderr), BusyNeedle)
    THEN "prompt"
    ELSE IF Includes(ToLowerCase(output.stderr), NotMountedNeedle)
         THEN "done"
         ELSE IF output.code # 0 THEN "failed" ELSE "done"

\* what one invocation does with the output of command.execute(), before any
\* dialog is answered: "done" (return), "prompt" (ask), "failed" (throw)
UnmountOutcome(output) ==
    IF output.code # 0
    THEN IF Includes(ToLowerCase(output.stderr), BusyNeedle)
         THEN "prompt"
         ELSE IF Includes(ToLowerCase(output.stderr), NotMountedNeedle)
              THEN "done"
              ELSE "failed"
    ELSE "done"

UmInit ==
    /\ umPc = "idle"
    /\ umMountPoint = <<>>
    /\ umForce = FALSE
    /\ umTopForce = FALSE
    /\ umOutput = NoOutput
    /\ umCmds = <<>>
    /\ umPrompts = 0
    /\ umAnswer = "none"
    /\ umError = NoError

\* a caller invokes unmount(mountPoint, force)
unmount(mountPoint, force) ==
    /\ umPc \in {"idle", "done", "failed"}
    /\ umPc' = "executing"
    /\ umMountPoint' = mountPoint
    /\ umForce' = force
    /\ umTopForce' = force
    /\ umOutput' = NoOutput
    /\ umCmds' = <<>>
    /\ umPrompts' = 0
    /\ umAnswer' = "none"
    /\ umError' = NoError
    /\ UNCHANGED <<pfVars, mpVars>>

\* command.execute() returns output; the invocation runs to its next await,
\* return or throw
execute(output) ==
    /\ umPc = "executing"
    /\ Len(umCmds) < MaxExecs
    /\ umCmds' = Append(umCmds, CommandArgs(umMountPoint, umForce))
    /\ umOutput' = output
    /\ umPc' = UnmountOutcome(output)
    /\ umPrompts' = IF UnmountOutcome(output) = "prompt"
                    THEN umPrompts + 1 ELSE umPrompts
    /\ umError' = IF UnmountOutcome(output) = "failed"
                  THEN output.stderr ELSE umError
    /\ UNCHANGED <<umMountPoint, umForce, umTopForce, umAnswer>>
    /\ UNCHANGED <<pfVars, mpVars>>

\* the user declines to re-run with force, but the call re-runs anyway
askAnswerRetriesOnDecline(answer) ==
    /\ umPc = "prompt"
    /\ umAnswer' = IF answer THEN "confirmed" ELSE "declined"
    /\ umPc' = "executing"
    /\ umForce' = TRUE
    /\ UNCHANGED <<umMountPoint, umTopForce, umOutput, umCmds, umPrompts, umError>>
    /\ UNCHANGED <<pfVars, mpVars>>

\* the user answers the 'Could not unmount' dialog
askAnswer(answer) ==
    /\ umPc = "prompt"
    /\ umAnswer' = IF answer THEN "confirmed" ELSE "declined"
    /\ IF answer
       THEN \* return await unmount(mountPoint, true)
            /\ umPc' = "executing"
            /\ umForce' = TRUE
            /\ umError' = umError
       ELSE \* throw new Error(output.stderr)
            /\ umPc' = "failed"
            /\ umForce' = umForce
            /\ umError' = umOutput.stderr
    /\ UNCHANGED <<umMountPoint, umTopForce, umOutput, umCmds, umPrompts>>
    /\ UNCHANGED <<pfVars, mpVars>>

UmCall == \E mp \in MountPoints, force \in BOOLEAN : unmount(mp, force)

UmExecute ==
    \E code \in ExitCodes, stderr \in StderrTexts :
        execute([code |-> code, stderr |-> stderr])

UmAnswer == \E answer \in BOOLEAN : askAnswer(answer)

UmNext == UmCall \/ UmExecute \/ UmAnswer

(***************************************************************************)
(* needsMountPlugin() and dialogGetMountPlugin()                           *)
(***************************************************************************)

MountPlatforms == {"macos", "windows", "linux"}

FuseTPath == "/Library/Application Support/fuse-t"

OsxFusePath == "/Library/Filesystems/macfuse.fs"

WinFspPath == "C:\\Program Files\\WinFsp"

WinFspX86Path == "C:\\Program Files (x86)\\WinFsp"

InstallPaths == {FuseTPath, OsxFusePath, WinFspPath, WinFspX86Path}

NpIdle == [pc |-> "idle", checked |-> <<>>, hasFirst |-> FALSE, result |-> FALSE]

DgIdle == [pc |-> "idle", events |-> <<>>, wantsDownload |-> FALSE, failedAt |-> "none"]

\* the helpers not called: used where only the other parts are explored
MpIdle ==
    /\ currentPlatform = "linux"
    /\ pathExists = [path \in InstallPaths |-> FALSE]
    /\ np = NpIdle
    /\ dg = DgIdle

MpInit ==
    /\ currentPlatform \in MountPlatforms
    /\ pathExists \in [InstallPaths -> BOOLEAN]
    /\ np = NpIdle
    /\ dg = DgIdle

\* a driver is reported missing when at least one of the two paths is missing
missingEither(hasFirst, hasSecond) == ~hasFirst \/ ~hasSecond

\* return !hasFuseT && !hasOsxFuse   /   return !hasWinFsp
missingBoth(hasFirst, hasSecond) == ~hasFirst /\ ~hasSecond

\* needsMountPlugin() up to its first await, or to its return on the
\* platforms without a driver requirement
needsMountPlugin ==
    /\ np.pc \in {"idle", "returned"}
    /\ np' = IF currentPlatform = "macos"
             THEN [NpIdle EXCEPT !.pc = "hasFuseT"]
             ELSE IF currentPlatform = "windows"
             THEN [NpIdle EXCEPT !.pc = "hasWinFsp"]
             ELSE [NpIdle EXCEPT !.pc = "returned", !.result = FALSE]
    /\ UNCHANGED <<currentPlatform, pathExists, dg>>
    /\ UNCHANGED <<pfVars, umVars>>

\* exists('/Library/Application Support/fuse-t') settles
hasFuseTSettles ==
    /\ np.pc = "hasFuseT"
    /\ np' = [np EXCEPT !.pc = "hasOsxFuse",
                        !.checked = Append(@, FuseTPath),
                        !.hasFirst = pathExists[FuseTPath]]
    /\ UNCHANGED <<currentPlatform, pathExists, dg>>
    /\ UNCHANGED <<pfVars, umVars>>

\* exists('/Library/Filesystems/macfuse.fs') settles and the call returns
hasOsxFuseSettles ==
    /\ np.pc = "hasOsxFuse"
    /\ np' = [np EXCEPT !.pc = "returned",
                        !.checked = Append(@, OsxFusePath),
                        !.result = missingBoth(np.hasFirst, pathExists[OsxFusePath])]
    /\ UNCHANGED <<currentPlatform, pathExists, dg>>
    /\ UNCHANGED <<pfVars, umVars>>

\* exists('C:\\Program Files\\WinFsp') settles: when it is true the || does
\* not evaluate the second exists and the call returns false
hasWinFspSettles ==
    /\ np.pc = "hasWinFsp"
    /\ np' = IF pathExists[WinFspPath]
             THEN [np EXCEPT !.pc = "returned",
                             !.checked = Append(@, WinFspPath),
                             !.hasFirst = TRUE,
                             !.result = FALSE]
             ELSE [np EXCEPT !.pc = "hasWinFspX86",
                             !.checked = Append(@, WinFspPath),
                             !.hasFirst = FALSE]
    /\ UNCHANGED <<currentPlatform, pathExists, dg>>
    /\ UNCHANGED <<pfVars, umVars>>

\* exists('C:\\Program Files (x86)\\WinFsp') settles and the call returns
hasWinFspX86Settles ==
    /\ np.pc = "hasWinFspX86"
    /\ np' = [np EXCEPT !.pc = "returned",
                        !.checked = Append(@, WinFspX86Path),
                        !.result = missingBoth(np.hasFirst, pathExists[WinFspX86Path])]
    /\ UNCHANGED <<currentPlatform, pathExists, dg>>
    /\ UNCHANGED <<pfVars, umVars>>

\* the installer of each platform: what is fetched and where it is written
InstallerUrl(p) ==
    IF p = "macos"
    THEN "https://github.com/macos-fuse-t/fuse-t/releases/download/1.0.49/fuse-t-macos-installer-1.0.49.pkg"
    ELSE "https://github.com/winfsp/winfsp/releases/download/v2.0/winfsp-2.0.23075.msi"

InstallerFile(p) ==
    IF p = "macos" THEN "fuse-t-installer.pkg" ELSE "winfsp-installer.msi"

Event(op, arg) == [op |-> op, arg |-> arg]

\* dialogGetMountPlugin() up to the await of ask(), or to its return on the
\* platforms without a driver
dialogGetMountPlugin ==
    /\ dg.pc \in {"idle", "done", "threw"}
    /\ dg' = IF currentPlatform \in {"macos", "windows"}
             THEN [DgIdle EXCEPT !.pc = "ask",
                                 !.events = <<Event("ask", currentPlatform)>>]
             ELSE [DgIdle EXCEPT !.pc = "done"]
    /\ UNCHANGED <<currentPlatform, pathExists, np>>
    /\ UNCHANGED <<pfVars, umVars>>

\* the download started whatever the answer to the dialog
askSettlesIgnoringAnswer(wantsDownload) ==
    /\ dg.pc = "ask"
    /\ dg' = [dg EXCEPT !.wantsDownload = wantsDownload, !.pc = "downloadDir"]
    /\ UNCHANGED <<currentPlatform, pathExists, np>>
    /\ UNCHANGED <<pfVars, umVars>>

\* the user answers the dialog: on Download the call awaits downloadDir(),
\* on Cancel it returns
askSettles(wantsDownload) ==
    /\ dg.pc = "ask"
    /\ dg' = [dg EXCEPT !.wantsDownload = wantsDownload,
                        !.pc = IF wantsDownload THEN "downloadDir" ELSE "done"]
    /\ UNCHANGED <<currentPlatform, pathExists, np>>
    /\ UNCHANGED <<pfVars, umVars>>

\* downloadDir() settles; fetch(installerUrl) is called
downloadDirSettles ==
    /\ dg.pc = "downloadDir"
    /\ dg' = [dg EXCEPT !.pc = "fetch",
                        !.events = Append(@, Event("fetch", InstallerUrl(currentPlatform)))]
    /\ UNCHANGED <<currentPlatform, pathExists, np>>
    /\ UNCHANGED <<pfVars, umVars>>

\* fetch(...).arrayBuffer() settles: writeFile(localPath, ...) is called, or
\* the rejection leaves the function
fetchSettles(ok) ==
    /\ dg.pc = "fetch"
    /\ dg' = IF ok
             THEN [dg EXCEPT !.pc = "writeFile",
                             !.events = Append(@, Event("writeFile", InstallerFile(currentPlatform)))]
             ELSE [dg EXCEPT !.pc = "threw", !.failedAt = "fetch"]
    /\ UNCHANGED <<currentPlatform, pathExists, np>>
    /\ UNCHANGED <<pfVars, umVars>>

\* writeFile settles: revealItemInDir(localPath) is called, or the rejection
\* leaves the function
writeFileSettles(ok) ==
    /\ dg.pc = "writeFile"
    /\ dg' = IF ok
             THEN [dg EXCEPT !.pc = "revealItemInDir",
                             !.events = Append(@, Event("revealItemInDir", InstallerFile(currentPlatform)))]
             ELSE [dg EXCEPT !.pc = "threw", !.failedAt = "writeFile"]
    /\ UNCHANGED <<currentPlatform, pathExists, np>>
    /\ UNCHANGED <<pfVars, umVars>>

\* revealItemInDir settles and the function returns, or its rejection
\* leaves the function
revealItemInDirSettles(ok) ==
    /\ dg.pc = "revealItemInDir"
    /\ dg' = IF ok
             THEN [dg EXCEPT !.pc = "done"]
             ELSE [dg EXCEPT !.pc = "threw", !.failedAt = "revealItemInDir"]
    /\ UNCHANGED <<currentPlatform, pathExists, np>>
    /\ UNCHANGED <<pfVars, umVars>>

AskSettles == \E wantsDownload \in BOOLEAN : askSettles(wantsDownload)

FetchSettles == \E ok \in BOOLEAN : fetchSettles(ok)

WriteFileSettles == \E ok \in BOOLEAN : writeFileSettles(ok)

RevealItemInDirSettles == \E ok \in BOOLEAN : revealItemInDirSettles(ok)

MpNext ==
    \/ needsMountPlugin
    \/ hasFuseTSettles
    \/ hasOsxFuseSettles
    \/ hasWinFspSettles
    \/ hasWinFspX86Settles
    \/ dialogGetMountPlugin
    \/ AskSettles
    \/ downloadDirSettles
    \/ FetchSettles
    \/ WriteFileSettles
    \/ RevealItemInDirSettles

(***************************************************************************)
(* PathFinder: environment (platform, local filesystem, remote backends)   *)
(***************************************************************************)

\* cap on the number of user operations (edits, browses) explored
MaxOps == 2

Fields == {"source", "dest"}

Platforms == {"linux", "windows"}

Null == "null"

RemoteSep == <<":","/">>

\* const slashSymbol = platform() === 'windows' ? '\\' : '/'
slashSymbol(p) == IF p = "windows" THEN <<"\\">> ELSE <<"/">>

\* useStore((state) => state.remotes): the registered remotes, in order
remotes == << <<"r">>, <<"s">> >>

NonEmpty(parts) == SelectSeq(parts, LAMBDA piece : piece # <<>>)

LocalEntry(name, isDirectory, isSymlink) ==
    [name |-> name, isDirectory |-> isDirectory, isSymlink |-> isSymlink]

\* the local directories, keyed by their path components below the root
\* ("/" on linux, "C:" on windows), with their children in listing order
LocalTree ==
    ( <<>> :> << LocalEntry(<<"t">>, TRUE, FALSE) >> )
    @@ ( << <<"t">> >> :>
            << LocalEntry(<<"d">>, TRUE, FALSE),
               LocalEntry(<<"f">>, FALSE, FALSE),
               LocalEntry(<<"l">>, FALSE, TRUE) >> )
    @@ ( << <<"t">>, <<"d">> >> :> << LocalEntry(<<"g">>, FALSE, FALSE) >> )

\* how the operating system resolves a path string to a directory key
PathKey(path, p) ==
    IF p = "windows"
    THEN LET unified == [i \in 1..Len(path) |->
                            IF path[i] = "/" THEN "\\" ELSE path[i]]
             segs == NonEmpty(Split(unified, <<"\\">>))
         IN  IF segs # <<>> /\ segs[1] = <<"C",":">>
             THEN [ok |-> TRUE, key |-> Tail(segs)]
             ELSE [ok |-> FALSE, key |-> <<>>]
    ELSE IF path # <<>> /\ path[1] = "/"
         THEN [ok |-> TRUE, key |-> NonEmpty(Split(path, <<"/">>))]
         ELSE [ok |-> FALSE, key |-> <<>>]

\* readDir(path) of @tauri-apps/plugin-fs: the children, or a rejection when
\* the path does not name a directory
readDir(path, p) ==
    LET k == PathKey(path, p)
    IN  IF k.ok /\ k.key \in DOMAIN LocalTree
        THEN [ok |-> TRUE, key |-> k.key, entries |-> LocalTree[k.key]]
        ELSE [ok |-> FALSE, key |-> <<>>, entries |-> <<>>]

RemoteItem(path, isDir) == [IsDir |-> isDir, Path |-> path]

\* the directories of each registered remote, keyed by path components
RemoteTree ==
    ( <<"r">> :>
        ( ( <<>> :> << RemoteItem(<<"p">>, TRUE), RemoteItem(<<"f">>, FALSE) >> )
          @@ ( << <<"p">> >> :> << RemoteItem(<<"q">>, TRUE) >> )
          @@ ( << <<"p">>, <<"q">> >> :> <<>> ) ) )
    @@ ( <<"s">> :> ( <<>> :> <<>> ) )

RemoteKey(remotePath) == NonEmpty(Split(remotePath, <<"/">>))

\* listPath(remote, path, options): items of the listed directory with Path
\* relative to the listed directory; an Error for unknown remotes and
\* directories
listPath(remote, remotePath) ==
    IF /\ remote \in DOMAIN RemoteTree
       /\ RemoteKey(remotePath) \in DOMAIN RemoteTree[remote]
    THEN [ok |-> TRUE, items |-> RemoteTree[remote][RemoteKey(remotePath)],
          message |-> Null]
    ELSE [ok |-> FALSE, items |-> <<>>, message |-> "directory not found"]

\* isRemotePath(path) of lib/fs
isRemotePath(path) == Includes(path, RemoteSep)

\* the texts a user types into a field
Inputs(p) ==
    IF p = "windows"
    THEN { <<>>,
           <<"C",":","\\","t","\\","f">>,
           <<"C",":","\\","x">>,
           <<"r",":","/","p">> }
    ELSE { <<>>,
           <<"t">>,
           <<"/","t","/","f">>,
           <<"/","t","/","/","f">>,
           <<"/","x">>,
           <<"r",":","/","p","/">>,
           <<"r",":","/","b",":","/","c">>,
           <<":","/","x">> }

NoSelection == <<"no selection">>

\* what the native folder picker can return
PickerChoices(p) ==
    IF p = "windows"
    THEN { NoSelection, <<"C",":","\\","t","\\","d">> }
    ELSE { NoSelection, <<"/","t","/","d">> }

(***************************************************************************)
(* PathFinder: component state and fetchSuggestions                        *)
(***************************************************************************)

\* the component state as one value, so that handlers compose
View ==
    [suggestions |-> suggestions, isLoading |-> isLoading, error |-> error,
     tasks |-> tasks, issued |-> issued, writer |-> writer, last |-> last]

Install(st) ==
    /\ suggestions' = st.suggestions
    /\ isLoading' = st.isLoading
    /\ error' = st.error
    /\ tasks' = st.tasks
    /\ issued' = st.issued
    /\ writer' = st.writer
    /\ last' = st.last

\* setIsLoading((prev) => ({ ...prev, [field]: value }))
setIsLoading(st, field, value) ==
    [st EXCEPT !.isLoading[field] = value]

\* setError((prev) => ({ ...prev, [field]: value }))
setError(st, field, value) ==
    [st EXCEPT !.error[field] = value]

\* a setter that rebuilds the whole record instead of spreading prev
setSuggestionsDroppingPrev(st, field, seq, value) ==
    [st EXCEPT !.suggestions = [f \in Fields |-> IF f = field THEN value ELSE <<>>],
               !.writer[field] = seq]

\* setSuggestions((prev) => ({ ...prev, [field]: value })), by call number seq
setSuggestions(st, field, seq, value) ==
    [st EXCEPT !.suggestions[field] = value, !.writer[field] = seq]

Suggestion(isDir, name, path) == [IsDir |-> isDir, Name |-> name, Path |-> path]

\* the remote entries named by the bare remote name
remoteItemsWithBareName ==
    [i \in 1..Len(remotes) |->
        Suggestion(TRUE, remotes[i], remotes[i] \o RemoteSep)]

\* remotes.map((remote) => ({ IsDir: true, Name: remote + ':/', Path: remote + ':/' }))
remoteItems ==
    [i \in 1..Len(remotes) |->
        Suggestion(TRUE, remotes[i] \o RemoteSep, remotes[i] \o RemoteSep)]

\* the retry path computed without dropping the last segment
cleanedPathKeepingLast(path, p) ==
    Join(Split(path, slashSymbol(p)), slashSymbol(p))

\* cleanedPath = path.split(slashSymbol).slice(0, -1).join(slashSymbol)
cleanedPathOf(path, p) ==
    Join(DropLast(Split(path, slashSymbol(p))), slashSymbol(p))

\* localEntries.filter(!isSymlink).map(...) with the extraSlash rule
localSuggestions(localEntries, cleanedPath, p) ==
    LET extraSlash == IF EndsWith(cleanedPath, slashSymbol(p))
                      THEN <<>> ELSE slashSymbol(p)
        kept == SelectSeq(localEntries, LAMBDA entry : ~entry.isSymlink)
    IN  [i \in 1..Len(kept) |->
            Suggestion(kept[i].isDirectory, kept[i].name,
                       cleanedPath \o extraSlash \o kept[i].name)]

\* const [remote, ...pathParts] = path.split(':/')
remoteOf(path) == Split(path, RemoteSep)[1]

\* pathParts.join('/') with one trailing '/' removed
remotePathOf(path) ==
    LET pathParts == Tail(Split(path, RemoteSep))
        joined == Join(pathParts, <<"/">>)
    IN  IF EndsWith(joined, <<"/">>)
        THEN Slice(joined, 1, Len(joined) - 1)
        ELSE joined

\* items.map((item) => ({ IsDir, Name: item.Path, Path: `${remote}:/${item.Path}` }))
suggestionsWithRemote(items, remote) ==
    [i \in 1..Len(items) |->
        Suggestion(items[i].IsDir, items[i].Path,
                   remote \o RemoteSep \o items[i].Path)]

\* what a completed fetchSuggestions call did: the arguments of its readDir
\* and listPath calls, the directory it listed (if any), whether it threw
Summary(seq, path, kind, readDirCalls, listCalls, cleanedPath, listed, listedKey, threw) ==
    [seq |-> seq, path |-> path, kind |-> kind, readDirCalls |-> readDirCalls,
     listCalls |-> listCalls, cleanedPath |-> cleanedPath, listed |-> listed,
     listedKey |-> listedKey, threw |-> threw]

\* the finally block, and the end of the call
finish(st, field, summary) ==
    [setIsLoading(st, field, FALSE) EXCEPT !.last[field] = summary]

\* the outer catch block: setError(message), setSuggestions([])
catch(st, field, seq, message) ==
    setSuggestions(setError(st, field, message), field, seq, <<>>)

\* a call suspended at an await
Task(field, seq, path, pc, readDirCalls) ==
    [field |-> field, seq |-> seq, path |-> path, pc |-> pc,
     readDirCalls |-> readDirCalls]

\* fetchSuggestions without the test of the text before ":/"
fetchSuggestionsWithoutRemoteTest(st, path, field) ==
    LET seq == st.issued[field] + 1
        s0 == [st EXCEPT !.issued[field] = seq]
        s1 == setError(setIsLoading(s0, field, TRUE), field, Null)
    IN  IF path = <<>>
        THEN finish(setSuggestions(s1, field, seq, remoteItems), field,
                    Summary(seq, path, "remotes", <<>>, <<>>, <<>>, FALSE, <<>>, FALSE))
        ELSE IF ~isRemotePath(path)
        THEN [s1 EXCEPT !.tasks = @ \cup {Task(field, seq, path, "readDir", <<path>>)}]
        ELSE [s1 EXCEPT !.tasks = @ \cup {Task(field, seq, path, "listPath", <<>>)}]

\* fetchSuggestions(path, field) from its start to its first await or its end
fetchSuggestions(st, path, field) ==
    LET seq == st.issued[field] + 1
        s0 == [st EXCEPT !.issued[field] = seq]
        s1 == setError(setIsLoading(s0, field, TRUE), field, Null)
    IN  IF path = <<>>
        THEN finish(setSuggestions(s1, field, seq, remoteItems), field,
                    Summary(seq, path, "remotes", <<>>, <<>>, <<>>, FALSE, <<>>, FALSE))
        ELSE IF ~isRemotePath(path)
        THEN [s1 EXCEPT !.tasks = @ \cup {Task(field, seq, path, "readDir", <<path>>)}]
        ELSE IF remoteOf(path) = <<>>
        THEN finish(catch(s1, field, seq, "Invalid remote path format"), field,
                    Summary(seq, path, "remote", <<>>, <<>>, <<>>, FALSE, <<>>, TRUE))
        ELSE [s1 EXCEPT !.tasks = @ \cup {Task(field, seq, path, "listPath", <<>>)}]

\* the first readDir settles: on success the entries are mapped and stored,
\* on rejection readDir is called again with the truncated path
readDirSettles(st, task, p) ==
    LET r == readDir(task.path, p)
        rest == st.tasks \ {task}
    IN  IF r.ok
        THEN finish(setSuggestions([st EXCEPT !.tasks = rest], task.field, task.seq,
                                   localSuggestions(r.entries, task.path, p)),
                    task.field,
                    Summary(task.seq, task.path, "local", task.readDirCalls,
                            <<>>, task.path, TRUE, r.key, FALSE))
        ELSE [st EXCEPT !.tasks = rest \cup
                 {Task(task.field, task.seq, task.path, "readDirAgain",
                       Append(task.readDirCalls, cleanedPathOf(task.path, p)))}]

\* the second readDir settles: its rejection is only logged, and the entries
\* read (none after a rejection) are mapped and stored
readDirAgainSettles(st, task, p) ==
    LET cleanedPath == cleanedPathOf(task.path, p)
        r == readDir(cleanedPath, p)
        rest == st.tasks \ {task}
    IN  finish(setSuggestions([st EXCEPT !.tasks = rest], task.field, task.seq,
                              localSuggestions(r.entries, cleanedPath, p)),
               task.field,
               Summary(task.seq, task.path, "local", task.readDirCalls,
                       <<>>, cleanedPath, r.ok, r.key, FALSE))

\* listPath settles: the items are mapped and stored, or the catch block runs
listPathSettles(st, task) ==
    LET remote == remoteOf(task.path)
        remotePath == remotePathOf(task.path)
        r == listPath(remote, remotePath)
        rest == [st EXCEPT !.tasks = st.tasks \ {task}]
        summary == Summary(task.seq, task.path, "remote", <<>>,
                           << <<remote, remotePath>> >>, <<>>, r.ok,
                           RemoteKey(remotePath), ~r.ok)
    IN  IF r.ok
        THEN finish(setSuggestions(rest, task.field, task.seq,
                                   suggestionsWithRemote(r.items, remote)),
                    task.field, summary)
        ELSE finish(catch(rest, task.field, task.seq, r.message),
                    task.field, summary)

\* one fetchSuggestions call run from start to end on its own: whether it
\* ended without error, and which directory it listed
resolve(path, p) ==
    IF path = <<>>
    THEN [ok |-> TRUE, kind |-> "remotes", remote |-> <<>>, key |-> <<>>]
    ELSE IF ~isRemotePath(path)
    THEN LET first == readDir(path, p)
             again == readDir(cleanedPathOf(path, p), p)
         IN  IF first.ok
             THEN [ok |-> TRUE, kind |-> "local", remote |-> <<>>, key |-> first.key]
             ELSE [ok |-> again.ok, kind |-> "local", remote |-> <<>>, key |-> again.key]
    ELSE IF remoteOf(path) = <<>>
    THEN [ok |-> FALSE, kind |-> "remote", remote |-> <<>>, key |-> <<>>]
    ELSE [ok |-> listPath(remoteOf(path), remotePathOf(path)).ok,
          kind |-> "remote", remote |-> remoteOf(path),
          key |-> RemoteKey(remotePathOf(path))]

(***************************************************************************)
(* PathFinder: handlers                                                    *)
(***************************************************************************)

NoSwap == [run |-> 0, origin |-> [f \in Fields |-> <<>>]]

BrowseIdle == [pc |-> "idle", acquired |-> FALSE, released |-> FALSE]

\* the sourcePath / destPath props at mount: the defaults, or a source
\* directory with the default destination
InitialPaths(p) ==
    { [source |-> <<>>, dest |-> <<>>],
      [source |-> IF p = "windows" THEN <<"C",":","\\","t">> ELSE <<"/","t">>,
       dest |-> <<>>] }

\* the useState initial values, before any effect has run
Unmounted ==
    [suggestions |-> [f \in Fields |-> <<>>],
     isLoading |-> [f \in Fields |-> FALSE],
     error |-> [f \in Fields |-> Null],
     tasks |-> {},
     issued |-> [f \in Fields |-> 0],
     writer |-> [f \in Fields |-> 0],
     last |-> [f \in Fields |->
                 Summary(0, <<>>, "none", <<>>, <<>>, <<>>, FALSE, <<>>, FALSE)]]

\* state once the component is mounted: both effects have run, calling
\* fetchSuggestions(sourcePath, 'source') and then fetchSuggestions(destPath, 'dest')
PfInit ==
    /\ platform \in Platforms
    /\ fieldPath \in InitialPaths(platform)
    /\ LET mounted == fetchSuggestions(
                          fetchSuggestions(Unmounted, fieldPath["source"], "source"),
                          fieldPath["dest"], "dest")
       IN  /\ suggestions = mounted.suggestions
           /\ isLoading = mounted.isLoading
           /\ error = mounted.error
           /\ tasks = mounted.tasks
           /\ issued = mounted.issued
           /\ writer = mounted.writer
           /\ last = mounted.last
    /\ browse = [f \in Fields |-> BrowseIdle]
    /\ windowsLocked = FALSE
    /\ ops = 0
    /\ swap = NoSwap

\* setSourcePath / setDestPath followed by the effect that depends on the
\* path: fetchSuggestions runs when the value changed
setPath(st, field, value) ==
    IF value # fieldPath[field]
    THEN fetchSuggestions(st, value, field)
    ELSE st

\* the user edits a field: handlePathChange(value, field)
handlePathChange(value, field) ==
    /\ ops < MaxOps
    /\ value # fieldPath[field]
    /\ ops' = ops + 1
    /\ fieldPath' = [fieldPath EXCEPT ![field] = value]
    /\ Install(setPath(View, field, value))
    /\ swap' = NoSwap
    /\ UNCHANGED <<platform, browse, windowsLocked>>
    /\ UNCHANGED <<umVars, mpVars>>

\* handleBrowse(field) up to the await of lockWindows()
handleBrowse(field) ==
    /\ ops < MaxOps
    /\ browse[field].pc \in {"idle", "done"}
    /\ ops' = ops + 1
    /\ browse' = [browse EXCEPT ![field] =
                     [pc |-> "locking", acquired |-> FALSE, released |-> FALSE]]
    /\ UNCHANGED <<platform, fieldPath, suggestions, isLoading, error, tasks,
                   issued, writer, last, swap, windowsLocked>>
    /\ UNCHANGED <<umVars, mpVars>>

\* lockWindows() of lib/window, a mutual-exclusion primitive: the call
\* settles once no other holder has the windows locked
lockWindowsGranted == ~windowsLocked

\* the picker opened without the lock having been awaited
lockWindowsSettlesWithoutWaiting(field) ==
    /\ browse[field].pc = "locking"
    /\ windowsLocked' = TRUE
    /\ browse' = [browse EXCEPT ![field] =
                     [pc |-> "picking", acquired |-> TRUE, released |-> FALSE]]
    /\ UNCHANGED <<platform, fieldPath, suggestions, isLoading, error, tasks,
                   issued, writer, last, swap, ops>>
    /\ UNCHANGED <<umVars, mpVars>>

\* await lockWindows() settles: the lock is held and open() is called
lockWindowsSettles(field) ==
    /\ browse[field].pc = "locking"
    /\ lockWindowsGranted
    /\ windowsLocked' = TRUE
    /\ browse' = [browse EXCEPT ![field] =
                     [pc |-> "picking", acquired |-> TRUE, released |-> FALSE]]
    /\ UNCHANGED <<platform, fieldPath, suggestions, isLoading, error, tasks,
                   issued, writer, last, swap, ops>>
    /\ UNCHANGED <<umVars, mpVars>>

\* open() resolves with a selection or with none: unlockWindows, then the
\* selected path is stored
pickerReturns(field, selected) ==
    /\ browse[field].pc = "picking"
    /\ windowsLocked' = FALSE
    /\ browse' = [browse EXCEPT ![field] =
                     [pc |-> "done", acquired |-> TRUE, released |-> TRUE]]
    /\ IF selected # NoSelection
       THEN /\ fieldPath' = [fieldPath EXCEPT ![field] = selected]
            /\ Install(setPath(View, field, selected))
            /\ swap' = IF selected # fieldPath[field] THEN NoSwap ELSE swap
       ELSE /\ fieldPath' = fieldPath
            /\ Install(View)
            /\ swap' = swap
    /\ UNCHANGED <<platform, ops>>
    /\ UNCHANGED <<umVars, mpVars>>

\* open() rejects: the catch block stores the field's error
pickerFails(field) ==
    /\ browse[field].pc = "picking"
    /\ browse' = [browse EXCEPT ![field].pc = "done"]
    /\ Install(setError(View, field, "Failed to open folder picker"))
    /\ UNCHANGED <<platform, fieldPath, windowsLocked, ops, swap>>
    /\ UNCHANGED <<umVars, mpVars>>

\* the exchange written without the temporary
swappedWithoutTemp(paths) ==
    [source |-> paths["dest"], dest |-> paths["dest"]]

\* const temp = sourcePath; setSourcePath(destPath); setDestPath(temp)
swapped(paths) ==
    [source |-> paths["dest"], dest |-> paths["source"]]

\* handleSwap: both setters run in one event, then the effects of the fields
\* whose path changed run fetchSuggestions, source first
handleSwap ==
    /\ ops < MaxOps
    /\ ops' = ops + 1
    /\ fieldPath' = swapped(fieldPath)
    /\ Install(setPath(setPath(View, "source", swapped(fieldPath)["source"]),
                       "dest", swapped(fieldPath)["dest"]))
    /\ swap' = [run |-> swap.run + 1,
                origin |-> IF swap.run = 0 THEN fieldPath ELSE swap.origin]
    /\ UNCHANGED <<platform, browse, windowsLocked>>
    /\ UNCHANGED <<umVars, mpVars>>

\* a pending readDir / listPath of some fetchSuggestions call settles
settle(task) ==
    /\ task \in tasks
    /\ Install(CASE task.pc = "readDir" -> readDirSettles(View, task, platform)
                 [] task.pc = "readDirAgain" -> readDirAgainSettles(View, task, platform)
                 [] task.pc = "listPath" -> listPathSettles(View, task))
    /\ UNCHANGED <<platform, fieldPath, browse, windowsLocked, ops, swap>>
    /\ UNCHANGED <<umVars, mpVars>>

Edit == \E field \in Fields : \E value \in Inputs(platform) : handlePathChange(value, field)

Browse == \E field \in Fields : handleBrowse(field)

LockWindowsSettles == \E field \in Fields : lockWindowsSettles(field)

PickerReturns ==
    \E field \in Fields : \E selected \in PickerChoices(platform) :
        pickerReturns(field, selected)

PickerFails == \E field \in Fields : pickerFails(field)

ReadDirSettles == \E task \in tasks : task.pc = "readDir" /\ settle(task)

ReadDirAgainSettles == \E task \in tasks : task.pc = "readDirAgain" /\ settle(task)

ListPathSettles == \E task \in tasks : task.pc = "listPath" /\ settle(task)

Next ==
    \/ Edit
    \/ Browse
    \/ handleSwap
    \/ LockWindowsSettles
    \/ PickerReturns
    \/ PickerFails
    \/ ReadDirSettles
    \/ ReadDirAgainSettles
    \/ ListPathSettles

Init == PfInit /\ UmInit /\ MpIdle

Spec == Init /\ [][Next]_vars

\* the unmount call on its own: the component stays as mounted
UmSpecInit == PfInit /\ platform = "linux" /\ UmInit /\ MpIdle

SpecUnmount == UmSpecInit /\ [][UmNext]_vars

\* the mount helpers on their own
MpSpecInit ==
    /\ PfInit
    /\ platform = "linux"
    /\ fieldPath = [f \in Fields |-> <<>>]
    /\ UmInit
    /\ MpInit

SpecMountPlugin == MpSpecInit /\ [][MpNext]_vars

(***************************************************************************)
(* Properties                                                              *)
(***************************************************************************)

InFlight(field) == {task \in tasks : task.field = field}

\* position of the last element of s equal to c, 0 when there is none
LastIndexOf(s, c) ==
    IF \E i \in 1..Len(s) : s[i] = c
    THEN CHOOSE i \in 1..Len(s) :
            s[i] = c /\ \A j \in (i + 1)..Len(s) : s[j] # c
    ELSE 0

\* the text before the last platform separator of path
TruncateAtLastSep(path, p) ==
    Slice(path, 1, LastIndexOf(path, slashSymbol(p)[1]) - 1)

\* position of the first occurrence of needle in s (s contains needle)
FirstIndexOf(s, needle) ==
    CHOOSE i \in 1..Len(s) :
        MatchAt(s, needle, i) /\ \A j \in 1..(i - 1) : ~MatchAt(s, needle, j)

BeforeFirst(s, needle) == Slice(s, 1, FirstIndexOf(s, needle) - 1)

AfterFirst(s, needle) == Slice(s, FirstIndexOf(s, needle) + Len(needle), Len(s))

StripOneTrailingSlash(s) ==
    IF s # <<>> /\ s[Len(s)] = "/" THEN Slice(s, 1, Len(s) - 1) ELSE s

\* C1: stale-response discard. Once every fetchSuggestions call of a field
\* has completed, the field's suggestions were written by the call that was
\* started last, not by an earlier one.
C1_StaleResponseDiscarded ==
    \A f \in Fields : InFlight(f) = {} => writer[f] = issued[f]

\* C2: bounded unmount retry. An invocation running with force = true never
\* shows the busy prompt, so within one top-level call the command runs at
\* most twice and the prompt is shown at most once.
C2_BoundedRetry ==
    /\ umPc = "prompt" => ~umForce
    /\ Len(umCmds) <= 2
    /\ umPrompts <= 1

\* C3: a finished handleBrowse call that acquired the window lock has
\* released it, whether the picker returned a selection, none, or failed.
C3_LockReleasedOnEveryExit ==
    \A f \in Fields :
        (browse[f].pc = "done" /\ browse[f].acquired) => browse[f].released

\* C4: busy escalation declined. After the user declines the force prompt the
\* call has failed with the command's stderr as its error, and the command
\* has run exactly once per prompt shown: nothing ran after the decline.
C4_DeclineFailsWithoutRerun ==
    umAnswer = "declined" =>
        /\ umPc = "failed"
        /\ umError = umOutput.stderr
        /\ Len(umCmds) = umPrompts

C4_Witness ==
    /\ umAnswer = "declined"
    /\ umPc = "failed"
    /\ ~umTopForce
    /\ umPrompts = 1
    /\ Len(umCmds) = 1
    /\ Includes(ToLowerCase(umOutput.stderr), BusyNeedle)

\* C5: unmount idempotence. When the command exits non-zero and its stderr
\* contains 'not currently mounted' (in any case), the call is done without
\* an error and without waiting at a prompt, whatever the force flag and
\* whatever else the stderr says.
C5_NotMountedSucceeds ==
    ( /\ umOutput.code # 0
      /\ Includes(ToLowerCase(umOutput.stderr), NotMountedNeedle) )
    => (umPc = "done" /\ umError = NoError)

\* the suggestions of field f are the children (symlinks excluded) of the
\* directory read at parent, each with path parent + separator (unless parent
\* ends with it) + name
RootedAt(f, parent, p) ==
    LET sep == slashSymbol(p)
        glue == IF parent # <<>> /\ parent[Len(parent)] = sep[1] THEN <<>> ELSE sep
        listed == readDir(parent, p).entries
    IN  \A i \in 1..Len(suggestions[f]) :
            LET e == suggestions[f][i]
            IN  /\ e.Path = parent \o glue \o e.Name
                /\ \E k \in 1..Len(listed) :
                      listed[k].name = e.Name /\ ~listed[k].isSymlink

\* C6: local retry. A local resolution calls readDir at most twice; the
\* second call happens only after the verbatim one failed and its argument
\* is the path truncated at the last platform separator; every entry stored
\* after the fallback is rooted at that parent.
C6_LocalRetryOnceRootedAtParent ==
    /\ \A task \in tasks :
          /\ Len(task.readDirCalls) <= 2
          /\ task.pc = "readDirAgain" =>
                task.readDirCalls =
                    <<task.path, TruncateAtLastSep(task.path, platform)>>
    /\ \A f \in Fields :
          last[f].kind = "local" =>
              /\ Len(last[f].readDirCalls) \in {1, 2}
              /\ last[f].readDirCalls[1] = last[f].path
              /\ Len(last[f].readDirCalls) = 2 =>
                    /\ ~readDir(last[f].path, platform).ok
                    /\ last[f].readDirCalls[2] =
                          TruncateAtLastSep(last[f].path, platform)
                    /\ writer[f] = last[f].seq
                    /\ RootedAt(f, TruncateAtLastSep(last[f].path, platform), platform)

C6_Witness ==
    \E f \in Fields :
        /\ last[f].kind = "local"
        /\ Len(last[f].readDirCalls) = 2
        /\ last[f].listed
        /\ Len(suggestions[f]) >= 2
        /\ last[f].path # last[f].cleanedPath

\* C7: local listing failure is surfaced. When both the verbatim readDir and
\* the retry failed, the resolution ends with empty suggestions and a
\* non-null error for the field.
C7_LocalFailureSurfaced ==
    \A f \in Fields :
        ( /\ last[f].kind = "local"
          /\ Len(last[f].readDirCalls) = 2
          /\ ~last[f].listed
          /\ last[f].seq = issued[f] )
        => (suggestions[f] = <<>> /\ error[f] # Null)

\* C8: round trip. Every directory entry stored by a local or remote listing
\* can be fed back: resolving its path gives no error and lists the child of
\* the listed directory that the entry names, on the same remote.
C8_RoundTrip ==
    \A f \in Fields :
        (last[f].kind \in {"local", "remote"} /\ last[f].listed /\ writer[f] = last[f].seq) =>
            \A i \in 1..Len(suggestions[f]) :
                suggestions[f][i].IsDir =>
                    LET back == resolve(suggestions[f][i].Path, platform)
                    IN  /\ back.ok
                        /\ back.kind = last[f].kind
                        /\ back.key = Append(last[f].listedKey, suggestions[f][i].Name)
                        /\ last[f].kind = "remote" =>
                              back.remote = last[f].listCalls[1][1]

\* the steps of the handlers and resolutions of one field
ActsOn(f) ==
    \/ \E value \in Inputs(platform) : handlePathChange(value, f)
    \/ handleBrowse(f)
    \/ lockWindowsSettles(f)
    \/ \E selected \in PickerChoices(platform) : pickerReturns(f, selected)
    \/ pickerFails(f)
    \/ \E task \in tasks : task.field = f /\ settle(task)

\* C9: per-field containment. A step of a resolution or of a browse on one
\* field leaves the other field's suggestions, isLoading and error as
\* they were, in every interleaving: a step that changes any of them for a
\* field is not a step of the other field.
C9_PerFieldContainment ==
    [][\A f \in Fields : \A g \in Fields \ {f} :
          ( \/ suggestions'[g] # suggestions[g]
            \/ isLoading'[g] # isLoading[g]
            \/ error'[g] # error[g] )
          => ~ActsOn(f)]_vars

C9_Witness ==
    \E f \in Fields : \E g \in Fields \ {f} :
        /\ last[f].threw
        /\ error[f] # Null
        /\ suggestions[f] = <<>>
        /\ InFlight(g) # {}
        /\ isLoading[g]
        /\ error[g] = Null
        /\ suggestions[g] = remoteItems

\* C10: remote address parsing. The remote name passed to listPath is the
\* text before the first ":/" of the path and the sub-path is the text after
\* that first occurrence with one trailing '/' removed.
C10_RemoteAddressParsing ==
    \A f \in Fields :
        (last[f].kind = "remote" /\ Len(last[f].listCalls) = 1) =>
            last[f].listCalls[1] =
                << BeforeFirst(last[f].path, RemoteSep),
                   StripOneTrailingSlash(AfterFirst(last[f].path, RemoteSep)) >>

\* a step in which a new fetchSuggestions call of field f starts
Starts(f) == issued'[f] = issued[f] + 1

\* C11: InvalidAddress. A resolution of a path that contains ":/" with no
\* text before it calls neither listPath nor readDir (no call is left
\* pending, none was made) and ends at once with the field's suggestions
\* empty, its error set to a message and isLoading false.
C11_InvalidAddress ==
    [][\A f \in Fields :
          ( /\ Starts(f)
            /\ Includes(fieldPath'[f], RemoteSep)
            /\ BeforeFirst(fieldPath'[f], RemoteSep) = <<>> )
          => /\ {task \in tasks' : task.field = f} = InFlight(f)
             /\ last'[f].seq = issued'[f]
             /\ last'[f].path = fieldPath'[f]
             /\ last'[f].readDirCalls = <<>>
             /\ last'[f].listCalls = <<>>
             /\ suggestions'[f] = <<>>
             /\ error'[f] # Null
             /\ isLoading'[f] = FALSE]_vars

C11_Witness ==
    \E f \in Fields :
        /\ fieldPath[f] = <<":","/","x">>
        /\ last[f].path = fieldPath[f]
        /\ last[f].seq = issued[f]
        /\ last[f].threw
        /\ error[f] = "Invalid remote path format"
        /\ suggestions[f] = <<>>
        /\ ~isLoading[f]

\* sugg is one entry per registered remote, in registry order, each a
\* directory with name = path = remote name + ":/"
OneEntryPerRemote(sugg) ==
    /\ Len(sugg) = Len(remotes)
    /\ \A i \in 1..Len(remotes) :
          /\ sugg[i].IsDir = TRUE
          /\ sugg[i].Name = sugg[i].Path
          /\ Len(sugg[i].Path) = Len(remotes[i]) + 2
          /\ BeforeFirst(sugg[i].Path, RemoteSep) = remotes[i]
          /\ AfterFirst(sugg[i].Path, RemoteSep) = <<>>

\* C13: empty path. A resolution of the empty string makes no readDir or
\* listPath call and, being the latest call of its field when it ends, leaves
\* the field's suggestions as one entry per known remote in registry order
\* (directory, name = path = remote + ":/") and its error null.
C13_EmptyPathListsRemotes ==
    [][\A f \in Fields :
          (Starts(f) /\ fieldPath'[f] = <<>>)
          => /\ {task \in tasks' : task.field = f} = InFlight(f)
             /\ last'[f].seq = issued'[f]
             /\ last'[f].readDirCalls = <<>>
             /\ last'[f].listCalls = <<>>
             /\ OneEntryPerRemote(suggestions'[f])
             /\ error'[f] = Null]_vars

C13_Witness ==
    \E f \in Fields :
        /\ fieldPath[f] = <<>>
        /\ issued[f] = 3
        /\ last[f].seq = 3
        /\ last[f].kind = "remotes"
        /\ writer[f] = 3
        /\ OneEntryPerRemote(suggestions[f])
        /\ error[f] = Null

\* the path given to the most recently started fetchSuggestions call of f,
\* read from the successor state
LatestPathAfter(f) ==
    IF \E task \in tasks' : task.field = f /\ task.seq = issued'[f]
    THEN (CHOOSE task \in tasks' : task.field = f /\ task.seq = issued'[f]).path
    ELSE last'[f].path

\* C12: swap. A handleSwap step exchanges the two paths in one step: the
\* source becomes the former destination and the destination the former
\* source; the resolutions it starts (one per field whose path changed) are
\* given the exchanged paths, never a half-exchanged pair; and the second of
\* two consecutive swaps restores the original pair.
C12_SwapExchangesAtomically ==
    [][swap'.run = swap.run + 1 =>
          /\ fieldPath'["source"] = fieldPath["dest"]
          /\ fieldPath'["dest"] = fieldPath["source"]
          /\ \A f \in Fields :
                /\ Starts(f) <=> fieldPath'[f] # fieldPath[f]
                /\ Starts(f) => LatestPathAfter(f) = fieldPath'[f]
          /\ swap'.run = 2 => fieldPath' = swap.origin]_vars

C12_Witness ==
    /\ swap.run = 2
    /\ fieldPath = swap.origin
    /\ fieldPath["source"] # fieldPath["dest"]
    /\ issued["source"] = 3
    /\ issued["dest"] = 3

\* a step in which the unmount command is executed
Executes == Len(umCmds') = Len(umCmds) + 1

\* C14: unmount failure. An execution that exits non-zero with a stderr
\* containing neither 'busy' nor 'not currently mounted' ends the call in
\* failure with that stderr as the error and without a prompt; an execution
\* that exits 0 ends it in success without a prompt whatever the stderr; and
\* once the call has ended, nothing more is executed or asked within it.
C14_UnmountFailureAndSuccess ==
    [][/\ ( /\ Executes
            /\ umOutput'.code # 0
            /\ ~Includes(ToLowerCase(umOutput'.stderr), BusyNeedle)
            /\ ~Includes(ToLowerCase(umOutput'.stderr), NotMountedNeedle) )
          => /\ umPc' = "failed"
             /\ umError' = umOutput'.stderr
             /\ umPrompts' = umPrompts
       /\ (Executes /\ umOutput'.code = 0)
          => /\ umPc' = "done"
             /\ umError' = NoError
             /\ umPrompts' = umPrompts
       /\ umPc \in {"failed", "done"}
          => (umCmds' = <<>> /\ umPrompts' = 0)]_vars

C14_Witness ==
    /\ umPc = "failed"
    /\ umOutput.code = 1
    /\ umOutput.stderr = <<"d","e","n","i","e","d">>
    /\ umError = umOutput.stderr
    /\ umPrompts = 0
    /\ Len(umCmds) = 1

\* C20: force only by consent. Every execution is for the mountPoint of the
\* call; it carries -f only if the caller passed force = true or the user
\* confirmed the prompt before it; the first execution of a call with
\* force = false carries no -f; an execution after a confirmed prompt
\* carries -f.
C20_ForceOnlyByConsent ==
    [][Executes =>
          LET args == umCmds'[Len(umCmds')]
          IN  /\ args[2] = umMountPoint
              /\ args[1] \in {<<>>, ForceFlag}
              /\ args[1] = ForceFlag => (umTopForce \/ umAnswer = "confirmed")
              /\ (Len(umCmds) = 0 /\ ~umTopForce) => args[1] = <<>>
              /\ umAnswer = "confirmed" => args[1] = ForceFlag]_vars

C20_Witness ==
    /\ ~umTopForce
    /\ umAnswer = "confirmed"
    /\ Len(umCmds) = 2
    /\ umCmds[1] = << <<>>, umMountPoint >>
    /\ umCmds[2] = << ForceFlag, umMountPoint >>

\* C15: needsMountPlugin. On macOS it returns true exactly when neither
\* macOS driver path exists, on Windows exactly when neither WinFsp path
\* exists, and on any other platform it returns false without any exists().
C15_NeedsMountPlugin ==
    np.pc = "returned" =>
        /\ currentPlatform = "macos" =>
              /\ np.result = (~pathExists[FuseTPath] /\ ~pathExists[OsxFusePath])
              /\ \A i \in 1..Len(np.checked) : np.checked[i] \in {FuseTPath, OsxFusePath}
        /\ currentPlatform = "windows" =>
              /\ np.result = (~pathExists[WinFspPath] /\ ~pathExists[WinFspX86Path])
              /\ \A i \in 1..Len(np.checked) : np.checked[i] \in {WinFspPath, WinFspX86Path}
        /\ currentPlatform \notin {"macos", "windows"} =>
              /\ np.result = FALSE
              /\ np.checked = <<>>

C15_Witness ==
    /\ np.pc = "returned"
    /\ currentPlatform = "windows"
    /\ np.result = FALSE
    /\ ~pathExists[WinFspPath]
    /\ pathExists[WinFspX86Path]
    /\ np.checked = <<WinFspPath, WinFspX86Path>>

\* the names of the steps dialogGetMountPlugin has performed, in order
DgOps == [i \in 1..Len(dg.events) |-> dg.events[i].op]

DgOrder == <<"ask", "fetch", "writeFile", "revealItemInDir">>

\* C16: guided download ordering. Nothing is fetched, written or revealed
\* unless the user accepted the dialog; the steps happen in the order fetch,
\* write, reveal, each at most once; when fetch or write fails the call ends
\* with that error and the later steps are not performed.
C16_DownloadOrdering ==
    /\ Len(DgOps) <= 4
    /\ DgOps = SubSeq(DgOrder, 1, Len(DgOps))
    /\ Len(DgOps) > 1 => dg.wantsDownload
    /\ dg.pc = "done" => Len(DgOps) \in {0, 1, 4}
    /\ dg.pc = "threw" =>
          /\ Len(DgOps) >= 2
          /\ dg.failedAt = DgOps[Len(DgOps)]

C16_Witness ==
    /\ dg.pc = "threw"
    /\ dg.wantsDownload
    /\ dg.failedAt = "writeFile"
    /\ DgOps = <<"ask", "fetch", "writeFile">>

\* the fields whose browse holds the window lock
Holders == {f \in Fields : browse[f].acquired /\ ~browse[f].released}

C18_LoadingTracksInFlight ==
    \A f \in Fields : InFlight(f) # {} => isLoading[f]

\* no browse has failed: pickerFails leaves the window lock held, so a state
\* with the lock free and no picker open has seen no failed browse
NoBrowseHasFailed == ~windowsLocked

\* C19: error and suggestions agree at quiescence. When no resolution of a
\* field is in flight and no browse has failed, a non-null error of the field
\* comes with empty suggestions (and non-empty suggestions with a null error).
C19_ErrorSuggestionConsistency ==
    \A f \in Fields :
        (InFlight(f) = {} /\ NoBrowseHasFailed)
        => (error[f] # Null => suggestions[f] = <<>>)
====
